---- MODULE Spec2Model ----
(***************************************************************************)
(* A model of go-modeldb (src/modeldb.go, src/adapter.go, src/error.go):   *)
(* the retrying transaction executor DoBegin, the placeholder translator   *)
(* ConvertPH, the argument expander expandArgs, the row materializer       *)
(* scanStruct and the record metadata registry GetModelInfoFromType.       *)
(*                                                                         *)
(* Go error values are modelled as strings: "nil", the backend-structured  *)
(* errors (pq.Error) "pq23505", "pq40001", "pqOther", the package's       *)
(* sentinels "ERR_DUPLICATE_ENTRY", "ERR_SERIAL_TX", "ERR_OTHER", and      *)
(* ordinary errors ("connErr", "ErrTxDone", "parseFail", "fmtErr").        *)
(* panic(nil) is not among the modelled panic values.                      *)
(***************************************************************************)
EXTENDS Integers, Sequences, FiniteSets, TLC

\* Bounds of the model.
MaxConflicts == 2
MaxWorkSteps == 2
MaxStmtLen == 6
MaxPHCalls == 2
MaxArgs == 2
NumProcs == 2
MaxFields == 3
MaxDescribes == 2
MaxErrCalls == 2
MaxRows == 2
MaxMarkers == 2

VARIABLES
    \* ---- DoBegin (src/modeldb.go:409-480) and the backend it drives
    level,          \* DoBegin's level argument
    pc,             \* DoBegin's position
    retry,          \* var retry
    retErr,         \* the named result retErr
    tries,          \* var tries
    tx,             \* the attempt's ModelTx: [h: handle index (0: none), Finalized]
    handles,        \* the backend transactions begun so far, in order:
                    \*   [state, calls (commit/rollback calls received), late (a call
                    \*    came when ModelTx.Finalized was already true), ins, level]
    dbRows,         \* rows the committed transactions inserted
    e,              \* the value recover() yields in the deferred handler ("none": no panic)
    wsteps,         \* statements the current work invocation has run
    workCalls,      \* invocations of the work callback f
    conflictsLeft,  \* serialization conflicts still to be reported
    hist,           \* history of the run, read only by the properties
    \* ---- ConvertPH (src/adapter.go)
    phConversions,  \* var phConversions = map[string]string{}
    phq,            \* the statement ConvertPH is called with
    phr,            \* what the latest call returned
    phCalls,        \* calls of ConvertPH(phq) so far
    \* ---- the record metadata registry (src/modeldb.go:78-140)
    allModelInfos,  \* var allModelInfos: model name -> reference into infos (0: nil)
    infos,          \* the ModelInfo objects allocated so far
    \* ---- expandArgs (src/modeldb.go:186-197)
    xargs,          \* the argument list
    xres,           \* the call's outcome: <<>> before it, <<[panic, a]>> after
    \* ---- scanStruct (src/modeldb.go:205-234)
    sdest,          \* the values the dest pointers point at
    srow,           \* the row's columns
    sres,           \* the call's outcome: <<>> before it, <<[panic, err, locals]>> after
    \* ---- goroutines calling GetModelInfoFromType concurrently
    rty,            \* per goroutine: the type it describes
    rpc,            \* per goroutine: its position in GetModelInfoFromType
    rm,             \* per goroutine: its local m (a reference into infos, 0: none)
    ri,             \* per goroutine: the field loop's i
    rgot,           \* per goroutine: <<>>, or <<[ref, m]>>: the reference returned
                    \*   and the descriptor as it stood at the return
    mapWriters,     \* the goroutines in the middle of a write of allModelInfos
    raced,          \* allModelInfos has been read while it was being written
    \* ---- sequential calls of GetModelInfoFromType (src/modeldb.go:87-140)
    decl,           \* the fields the program declares for the struct type main.Gen
    dgot,           \* the calls so far, in order: [rt, ref, panic]
    \* ---- GetErrorType (src/error.go:26-58)
    gerr,           \* the error passed
    gres,           \* <<>> before the call, <<the error returned>> after
    \* ---- _QueryAll (src/modeldb.go:252-267)
    qproto,         \* the proto argument
    qrows,          \* the rows the cursor yields, in order
    qerr,           \* the error of c.Query
    qres,           \* <<>> before the call, <<[panic, err, protos]>> after
    \* ---- _Exec (src/modeldb.go:236-238)
    equery,         \* the query argument
    eargs,          \* the args
    eres            \* <<>> before the call, <<[panic, text, params]>> after: what
                    \*   c.Exec is handed

txVars == <<level, pc, retry, retErr, tries, tx, handles, dbRows, e, wsteps,
            workCalls, conflictsLeft, hist>>

phVars == <<phConversions, phq, phr, phCalls>>

regVars == <<allModelInfos, infos>>

xVars == <<xargs, xres>>

sVars == <<sdest, srow, sres>>

rVars == <<rty, rpc, rm, ri, rgot, mapWriters, raced>>

dVars == <<decl, dgot>>

gVars == <<gerr, gres>>

qVars == <<qproto, qrows, qerr, qres>>

eVars == <<equery, eargs, eres>>

restVars == <<dVars, gVars, qVars, eVars>>

vars == <<txVars, phVars, regVars, xVars, sVars, rVars, restVars>>

------------------------------------------------------------------------------
\* src/error.go

\* GetErrorType_DupAsSerial: a classification that takes 23505 for the retryable code.
GetErrorType_DupAsSerial(err) ==
    CASE err = "nil" -> "nil"
      [] err = "pq23505" -> "ERR_SERIAL_TX"
      [] err = "pq40001" -> "ERR_SERIAL_TX"
      [] err = "pqOther" -> "ERR_OTHER"
      [] OTHER -> err

\* the backend-structured errors (values of type pointer to pq.Error), each
\* with its Code
PqErrors ==
    {"pq23505", "pq40001", "pqOther", "pq23503", "pq23000", "pq23514", "pq40P01",
     "pq40000", "pq40002", "pq08006", "pq00000", "pqEmpty"}

Code(err) ==
    CASE err = "pq23505" -> "23505"
      [] err = "pq40001" -> "40001"
      [] err = "pqOther" -> "XX000"
      [] err = "pq23503" -> "23503"
      [] err = "pq23000" -> "23000"
      [] err = "pq23514" -> "23514"
      [] err = "pq40P01" -> "40P01"
      [] err = "pq40000" -> "40000"
      [] err = "pq40002" -> "40002"
      [] err = "pq08006" -> "08006"
      [] err = "pq00000" -> "00000"
      [] err = "pqEmpty" -> ""

\* (variant: the switch without its default case)
GetErrorType_NoDefault(err) ==
    IF err = "nil" THEN "nil"
    ELSE IF err \in PqErrors
         THEN CASE Code(err) = "23505" -> "ERR_DUPLICATE_ENTRY"
                [] Code(err) = "40001" -> "ERR_SERIAL_TX"
                [] OTHER -> err
         ELSE err

\* GetErrorType (src/error.go:26-58)
GetErrorType(err) ==
    IF err = "nil" THEN "nil"
    ELSE IF err \in PqErrors
         THEN CASE Code(err) = "23505" -> "ERR_DUPLICATE_ENTRY"
                [] Code(err) = "40001" -> "ERR_SERIAL_TX"
                [] OTHER -> "ERR_OTHER"
         ELSE err

------------------------------------------------------------------------------
\* The backend transaction handle (sql.Tx) as ModelTx and Begin use it.

NoTx == [h |-> 0, Finalized |-> FALSE]

\* Errors the backend may report for a statement, a commit or a rollback.
BackendErrs == {"pqOther", "connErr"}
    \cup (IF conflictsLeft > 0 THEN {"pq40001"} ELSE {})

IsConflict(err) == err \in {"pq40001", "ERR_SERIAL_TX"}

\* conflictsLeft after an outcome err has been drawn
Spend(err) == IF IsConflict(err) THEN conflictsLeft - 1 ELSE conflictsLeft

\* The outcomes of a call on handle h: a finished sql.Tx answers ErrTxDone.
Outcomes(h) ==
    IF handles[h].state # "open" THEN {"ErrTxDone"} ELSE {"nil"} \cup BackendErrs

\* tx.Tx.Commit(): the handle after a commit call that returned err
\* (a transaction that ends uncommitted loses its inserts)
TxCommit(h, err) ==
    [handles EXCEPT ![h].calls = @ + 1,
                    ![h].late = @ \/ tx.Finalized,
                    ![h].state = IF @ # "open" THEN @
                                 ELSE IF err = "nil" THEN "committed" ELSE "aborted",
                    ![h].ins = IF handles[h].state = "open" /\ err # "nil" THEN 0 ELSE @]

\* tx.Tx.Rollback(): the handle after a rollback call that returned err
TxRollback(h, err) ==
    [handles EXCEPT ![h].calls = @ + 1,
                    ![h].late = @ \/ tx.Finalized,
                    ![h].state = IF @ # "open" THEN @
                                 ELSE IF err = "nil" THEN "rolledback" ELSE "aborted",
                    ![h].ins = IF handles[h].state = "open" THEN 0 ELSE @]

\* rows in the database after a commit call on h that returned err
RowsAfterCommit(h, err) ==
    IF handles[h].state = "open" /\ err = "nil" THEN dbRows + handles[h].ins ELSE dbRows

------------------------------------------------------------------------------
\* Begin (src/modeldb.go:392-405), inlined in DoBegin's attempt

IsolationLevel(l) == IF l = "" THEN "READ COMMITTED" ELSE l

\* loop top: var retry = false
LoopTop ==
    /\ pc = "top"
    /\ retry' = FALSE
    /\ pc' = "begin"
    /\ UNCHANGED <<level, retErr, tries, tx, handles, dbRows, e, wsteps, workCalls,
                   conflictsLeft, hist>>

\* tx, err := GetDB().Begin(); if err != nil { return nil, err }
DbBegin ==
    /\ pc = "begin"
    /\ \E err \in {"nil"} \cup BackendErrs :
        /\ conflictsLeft' = Spend(err)
        /\ IF err # "nil"
           THEN /\ retErr' = err
                /\ retry' = FALSE
                /\ pc' = "loop"
                /\ UNCHANGED handles
           ELSE /\ handles' = Append(handles,
                                [state |-> "open", calls |-> 0, late |-> FALSE,
                                 ins |-> 0, level |-> "default"])
                /\ pc' = "setlevel"
                /\ UNCHANGED <<retErr, retry>>
    /\ tx' = NoTx
    /\ e' = "none"
    /\ UNCHANGED <<level, tries, dbRows, wsteps, workCalls, hist>>

\* _, err = tx.Exec(`SET TRANSACTION ISOLATION LEVEL ` + level)
\* if err != nil { return nil, err };  return &ModelTx{tx, false}, nil
\* On success DoBegin installs its deferred handler and calls f(tx).
SetLevel ==
    /\ pc = "setlevel"
    /\ LET h == Len(handles) IN
       \E err \in {"nil"} \cup BackendErrs :
        /\ conflictsLeft' = Spend(err)
        /\ IF err # "nil"
           THEN /\ retErr' = err
                /\ retry' = FALSE
                /\ pc' = "loop"
                /\ UNCHANGED <<handles, tx, workCalls, wsteps>>
           ELSE /\ handles' = [handles EXCEPT ![h].level = IsolationLevel(level)]
                /\ tx' = [h |-> h, Finalized |-> FALSE]
                /\ pc' = "work"
                /\ workCalls' = workCalls + 1
                /\ wsteps' = 0
                /\ UNCHANGED <<retErr, retry>>
    /\ hist' = [hist EXCEPT !.rbErr = "nil", !.finAtPanic = FALSE, !.deferRb = FALSE,
                            !.dbCommit = FALSE]
    /\ UNCHANGED <<level, tries, dbRows, e>>

------------------------------------------------------------------------------
\* ModelTx (src/modeldb.go:333-371)

\* ModelTx.Commit / ModelTx.Rollback: mTx.Finalized = true, whatever the call returns
ModelTx_SetFinalized(t) == [t EXCEPT !.Finalized = TRUE]

\* ModelTx.Finalize's guard: if !mTx.Finalized
Finalize_Needed(t) == ~t.Finalized

------------------------------------------------------------------------------
\* The work callback f(tx): statements on the transaction, its own calls of
\* tx.Commit(), tx.Rollback() and tx.Finalize(), a panic, or a normal return.

\* the history once an implicit rollback (Finalize's, the deferred handler's)
\* has returned rbErr: the attempt's first failure is kept
RollbackSeen(rbErr) ==
    [hist EXCEPT !.rbErr = IF @ = "nil" THEN rbErr ELSE @]

\* Values the work callback panics with that do not come from a call on tx:
\* a parse failure of ConvertPH, a non-error value (log.Panicf's string), a
\* backend error of a statement run outside tx, the package's own sentinel.
WorkPanicVals == {"parseFail", "nonError", "pq23505"}
    \cup (IF conflictsLeft > 0 THEN {"pq40001", "ERR_SERIAL_TX"} ELSE {})

\* tx.Exec(insert ...): panic(err) on failure
WorkExec ==
    /\ pc = "work"
    /\ wsteps < MaxWorkSteps
    /\ \E err \in Outcomes(tx.h) :
        /\ conflictsLeft' = Spend(err)
        /\ IF err = "nil"
           THEN /\ handles' = [handles EXCEPT ![tx.h].ins = @ + 1]
                /\ UNCHANGED <<pc, e>>
           ELSE /\ e' = err
                /\ pc' = "deferred"
                /\ UNCHANGED handles
    /\ wsteps' = wsteps + 1
    /\ UNCHANGED <<level, retry, retErr, tries, tx, dbRows, workCalls, hist>>

\* tx.Commit() called by the work callback, which goes on or panics with the error
WorkCommit ==
    /\ pc = "work"
    /\ wsteps < MaxWorkSteps
    /\ \E err \in Outcomes(tx.h), panics \in BOOLEAN :
        /\ panics => err # "nil"
        /\ conflictsLeft' = Spend(err)
        /\ tx' = ModelTx_SetFinalized(tx)
        /\ handles' = TxCommit(tx.h, err)
        /\ dbRows' = RowsAfterCommit(tx.h, err)
        /\ hist' = [hist EXCEPT !.selfCommitted =
                        @ \/ (handles[tx.h].state = "open" /\ err = "nil")]
        /\ IF panics
           THEN e' = err /\ pc' = "deferred"
           ELSE UNCHANGED <<e, pc>>
    /\ wsteps' = wsteps + 1
    /\ UNCHANGED <<level, retry, retErr, tries, workCalls>>

\* tx.Rollback() called by the work callback, which goes on or panics with the error
WorkRollback ==
    /\ pc = "work"
    /\ wsteps < MaxWorkSteps
    /\ \E err \in Outcomes(tx.h), panics \in BOOLEAN :
        /\ panics => err # "nil"
        /\ conflictsLeft' = Spend(err)
        /\ tx' = ModelTx_SetFinalized(tx)
        /\ handles' = TxRollback(tx.h, err)
        /\ IF panics
           THEN e' = err /\ pc' = "deferred"
           ELSE UNCHANGED <<e, pc>>
    /\ wsteps' = wsteps + 1
    /\ UNCHANGED <<level, retry, retErr, tries, dbRows, workCalls, hist>>

\* tx.Finalize() called by the work callback (src/modeldb.go:364-371):
\* if !mTx.Finalized { rbErr := mTx.Tx.Rollback(); if rbErr != nil { panic(rbErr) } }
WorkFinalize ==
    /\ pc = "work"
    /\ wsteps < MaxWorkSteps
    /\ IF Finalize_Needed(tx)
       THEN \E rbErr \in Outcomes(tx.h) :
              /\ conflictsLeft' = Spend(rbErr)
              /\ handles' = TxRollback(tx.h, rbErr)
              /\ hist' = RollbackSeen(rbErr)
              /\ IF rbErr # "nil"
                 THEN e' = rbErr /\ pc' = "deferred"
                 ELSE UNCHANGED <<e, pc>>
       ELSE UNCHANGED <<conflictsLeft, handles, e, pc, hist>>
    /\ wsteps' = wsteps + 1
    /\ UNCHANGED <<level, retry, retErr, tries, tx, dbRows, workCalls>>

\* the work callback panics with a value of its own
WorkPanic ==
    /\ pc = "work"
    /\ \E v \in WorkPanicVals :
        /\ conflictsLeft' = Spend(v)
        /\ e' = v
    /\ pc' = "deferred"
    /\ UNCHANGED <<level, retry, retErr, tries, tx, handles, dbRows, wsteps,
                   workCalls, hist>>

\* the work callback returns normally
WorkReturn ==
    /\ pc = "work"
    /\ pc' = "commit"
    /\ UNCHANGED <<level, retry, retErr, tries, tx, handles, dbRows, e, wsteps,
                   workCalls, conflictsLeft, hist>>

------------------------------------------------------------------------------
\* DoBegin (src/modeldb.go:409-480)

\* err, ok := e.(error); if !ok { err = fmt.Errorf("%v", e) }
AsError(v) == IF v = "nonError" THEN "fmtErr" ELSE v

\* if GetErrorType(err) == ERR_SERIAL_TX (lines 433 and 460)
IsSerial(err) == GetErrorType(err) = "ERR_SERIAL_TX"

\* the commit branch's result: if err != nil { retErr = err } (lines 464-468)
CommitRetErr_Dropped(err, old) == old

CommitRetErr(err, old) == IF ~IsSerial(err) /\ err # "nil" THEN err ELSE old

\* the recover branch's guard of its rollback: if !tx.Finalized (line 426)
RecoverRollback(t) == ~t.Finalized

\* err = tx.Commit(); retry on ERR_SERIAL_TX, surface any other error
DoCommit ==
    /\ pc = "commit"
    /\ \E err \in Outcomes(tx.h) :
        /\ conflictsLeft' = Spend(err)
        /\ tx' = ModelTx_SetFinalized(tx)
        /\ handles' = TxCommit(tx.h, err)
        /\ dbRows' = RowsAfterCommit(tx.h, err)
        /\ retry' = IsSerial(err)
        /\ retErr' = CommitRetErr(err, retErr)
    /\ hist' = [hist EXCEPT !.dbCommit = TRUE]
    /\ pc' = "deferred"
    /\ UNCHANGED <<level, tries, e, wsteps, workCalls>>

\* the deferred handler (lines 424-453)
Deferred ==
    /\ pc = "deferred"
    /\ IF e # "none"
       THEN /\ IF RecoverRollback(tx)
               THEN \E rbErr \in Outcomes(tx.h) :
                      /\ conflictsLeft' = Spend(rbErr)
                      /\ handles' = TxRollback(tx.h, rbErr)
                      /\ hist' = [RollbackSeen(rbErr) EXCEPT !.finAtPanic = tx.Finalized,
                                                             !.deferRb = TRUE]
               ELSE /\ UNCHANGED <<conflictsLeft, handles>>
                    /\ hist' = [hist EXCEPT !.finAtPanic = tx.Finalized,
                                            !.deferRb = FALSE]
            /\ IF IsSerial(AsError(e))
               THEN retry' = TRUE /\ UNCHANGED retErr
               ELSE retry' = FALSE /\ retErr' = AsError(e)
       ELSE /\ IF ~tx.Finalized
               THEN \E rbErr \in Outcomes(tx.h) :
                      /\ conflictsLeft' = Spend(rbErr)
                      /\ handles' = TxRollback(tx.h, rbErr)
                      /\ hist' = RollbackSeen(rbErr)
                      /\ IF rbErr # "nil"
                         THEN retErr' = rbErr /\ retry' = FALSE
                         ELSE UNCHANGED <<retErr, retry>>
               ELSE UNCHANGED <<conflictsLeft, handles, retErr, retry, hist>>
    /\ pc' = "loop"
    /\ UNCHANGED <<level, tries, tx, dbRows, e, wsteps, workCalls>>

\* if retry { tries++; continue } else { break }; return
LoopCheck ==
    /\ pc = "loop"
    /\ IF retry
       THEN tries' = tries + 1 /\ pc' = "top"
       ELSE pc' = "done" /\ UNCHANGED tries
    /\ UNCHANGED <<level, retry, retErr, tx, handles, dbRows, e, wsteps, workCalls,
                   conflictsLeft, hist>>

InitTx ==
    /\ level \in {"", "SERIALIZABLE"}
    /\ pc = "top"
    /\ retry = FALSE
    /\ retErr = "nil"
    /\ tries = 0
    /\ tx = NoTx
    /\ handles = <<>>
    /\ dbRows = 0
    /\ e = "none"
    /\ wsteps = 0
    /\ workCalls = 0
    /\ conflictsLeft = MaxConflicts
    /\ hist = [selfCommitted |-> FALSE, finAtPanic |-> FALSE, deferRb |-> FALSE,
               dbCommit |-> FALSE, rbErr |-> "nil"]

NextTx ==
    \/ LoopTop
    \/ DbBegin
    \/ SetLevel
    \/ WorkExec
    \/ WorkCommit
    \/ WorkRollback
    \/ WorkFinalize
    \/ WorkPanic
    \/ WorkReturn
    \/ DoCommit
    \/ Deferred
    \/ LoopCheck

\* ConvertPH not called
IdlePH ==
    /\ phConversions = <<>>
    /\ phq = <<>>
    /\ phr = <<>>
    /\ phCalls = 0

\* the registry at process start, expandArgs not called
IdleReg ==
    /\ allModelInfos = <<>>
    /\ infos = <<>>

IdleX ==
    /\ xargs = <<>>
    /\ xres = <<>>

IdleS ==
    /\ sdest = <<>>
    /\ srow = <<>>
    /\ sres = <<>>

\* no goroutine in GetModelInfoFromType
IdleR ==
    /\ rty = <<>>
    /\ rpc = <<>>
    /\ rm = <<>>
    /\ ri = <<>>
    /\ rgot = <<>>
    /\ mapWriters = {}
    /\ raced = FALSE

\* no struct type main.Gen declared, no sequential call made
IdleD ==
    /\ decl = <<>>
    /\ dgot = <<>>

\* GetErrorType not called
IdleG ==
    /\ gerr = "nil"
    /\ gres = <<>>

\* QueryAll not called
IdleQ ==
    /\ qproto = <<>>
    /\ qrows = <<>>
    /\ qerr = "nil"
    /\ qres = <<>>

\* Exec not called
IdleE ==
    /\ equery = <<>>
    /\ eargs = <<>>
    /\ eres = <<>>

IdleRest == IdleD /\ IdleG /\ IdleQ /\ IdleE

Init == InitTx /\ IdlePH /\ IdleReg /\ IdleX /\ IdleS /\ IdleR /\ IdleRest

Next == NextTx /\ UNCHANGED <<phVars, regVars, xVars, sVars, rVars, restVars>>

Spec == Init /\ [][Next]_vars

\* DoBegin runs on the caller's goroutine: every step it can take, it takes.
FairSpec == Spec /\ WF_vars(Next)

------------------------------------------------------------------------------
\* Properties of DoBegin, checked under Spec

Committed == {h \in 1..Len(handles) : handles[h].state = "committed"}

Returned == pc = "done"

C2_ExitsOnlyOnCommitOrNonConflict ==
    Returned =>
        \/ retErr = "nil" /\ Len(handles) \in Committed
        \/ retErr # "nil" /\ ~IsConflict(retErr)

\* C2 (its consequence, checked under FairSpec): with the backend reporting
\* only finitely many conflicts, DoBegin eventually returns.
C2_EventuallyReturns == <>Returned

\* C3 (as stated): DoBegin never returns an error that GetErrorType classifies
\* as ERR_SERIAL_TX.
C3_NoSerialErrorReturned ==
    Returned => GetErrorType(retErr) # "ERR_SERIAL_TX"

\* C4: once the work callback has panicked with a value that is not a
\* serialization conflict, DoBegin neither commits nor runs the work callback
\* again (it only runs its deferred handler, leaves the loop and returns); the
\* handler rolls the transaction back exactly when it is not finalized, and
\* DoBegin returns the panic's error.
C4_NonConflictPanicIsSurfaced ==
    (e # "none" /\ ~IsConflict(e)) =>
        /\ pc \in {"deferred", "loop", "done"}
        /\ ~hist.dbCommit
        /\ workCalls = Len(handles)
        /\ pc \in {"loop", "done"} =>
            /\ ~retry
            /\ retErr = AsError(e)
            /\ hist.deferRb = ~hist.finAtPanic
            /\ hist.deferRb => handles[tx.h].calls >= 1
            /\ handles[tx.h].state # "open"

\* C4 witness: a duplicate-entry panic was rolled back and returned.
C4_Witness ==
    /\ Returned /\ e = "pq23505" /\ retErr = "pq23505"
    /\ hist.deferRb /\ handles[tx.h].state = "rolledback"

\* C5 (as stated): once Finalized is true no commit or rollback is issued
\* against the handle, and each handle receives at most one such call.
C5_NoCallAfterFinalized ==
    \A h \in 1..Len(handles) : ~handles[h].late /\ handles[h].calls <= 1

\* C6 (as stated): when DoBegin returns, every transaction it began has been
\* committed or rolled back.
C6_NoOpenHandleAtReturn ==
    Returned => \A h \in 1..Len(handles) : handles[h].state # "open"

------------------------------------------------------------------------------
\* The placeholder translator (src/adapter.go).  A statement is a sequence of
\* one-character strings.

Alphabet == {"?", "'", "\\", "a"}

\* the statement of the spec's concrete scenario, and a statement of 11 markers
ExampleStmt ==
    <<"S", "E", "L", "E", "C", "T", " ", "*", " ", "F", "R", "O", "M", " ", "t", " ",
      "W", "H", "E", "R", "E", " ", "a", "=", "?", " ", "A", "N", "D", " ", "b", "=",
      "'", "e", "s", "c", "\\", "'", "a", "p", "e", "d", "?", "'", " ", "A", "N",
      "D", " ", "c", "=", "?">>

ManyMarkers ==
    <<"?", "?", "?", "?", "?", "?", "?", "?", "?", "?", "?">>

Statements ==
    UNION {[1..n -> Alphabet] : n \in 0..MaxStmtLen} \cup {ExampleStmt, ManyMarkers}

\* "OTHER": NegSet("'?").Rep(0, -1): the position after the run that starts at i
RECURSIVE OtherEnd(_, _)
OtherEnd(q, i) ==
    IF i <= Len(q) /\ q[i] \notin {"'", "?"} THEN OtherEnd(q, i + 1) ELSE i

\* "PH": Char('?'): the position after the match at i, 0 when there is none
PhEnd(q, i) == IF i <= Len(q) /\ q[i] = "?" THEN i + 1 ELSE 0

\* StrItem_NoEscape: the literal's body without the escape alternative
StrItem_NoEscape(q, j) ==
    IF j <= Len(q) /\ q[j] # "'" THEN j + 1 ELSE 0

\* one item of a literal's body: Seq(Char('\\'), Any(1)).Or(NegSet("'")):
\* the position after the match at j, 0 when there is none
StrItem(q, j) ==
    IF j + 1 <= Len(q) /\ q[j] = "\\" THEN j + 2
    ELSE IF j <= Len(q) /\ q[j] # "'" THEN j + 1
    ELSE 0

\* the body's .Rep(0, -1): greedy, without backtracking
RECURSIVE StrBodyEnd(_, _)
StrBodyEnd(q, j) ==
    LET n == StrItem(q, j) IN IF n = 0 THEN j ELSE StrBodyEnd(q, n)

\* "STR": Char('\''), the body, Char('\''): 0 when there is no match at i
StrEnd(q, i) ==
    IF i <= Len(q) /\ q[i] = "'"
    THEN LET j == StrBodyEnd(q, i + 1) IN
         IF j <= Len(q) /\ q[j] = "'" THEN j + 1 ELSE 0
    ELSE 0

\* Seq(Ref("PH").Or(Ref("STR")), Ref("OTHER")).Rep(0, -1) from position i:
\* the captures and the position the match ends at
RECURSIVE Spans(_, _)
Spans(q, i) ==
    LET p == PhEnd(q, i)
        n == IF p # 0 THEN p ELSE StrEnd(q, i)
    IN  IF n = 0 THEN [items |-> <<>>, pos |-> i]
        ELSE LET o == OtherEnd(q, n)
                 rest == Spans(q, o)
             IN  [items |-> <<SubSeq(q, i, n - 1), SubSeq(q, n, o - 1)>> \o rest.items,
                  pos |-> rest.pos]

\* Match(phGrammar, q): "S" matches a prefix of q (every statement has one) and
\* yields its captures as a list; pos is the position after the matched prefix.
Match(q) ==
    LET o == OtherEnd(q, 1)
        t == Spans(q, o)
    IN  [r |-> <<SubSeq(q, 1, o - 1)>> \o t.items, err |-> "nil", pos |-> t.pos]

\* strconv of a positive integer, as fmt's %v prints it
Digit(d) == <<"0", "1", "2", "3", "4", "5", "6", "7", "8", "9">>[d + 1]

RECURSIVE Itoa(_)
Itoa(n) == IF n < 10 THEN <<Digit(n)>> ELSE Itoa(n \div 10) \o <<Digit(n % 10)>>

\* fmt.Sprintf("$%v", index)
Dollar(index) == <<"$">> \o Itoa(index)

\* index++
NextIndex(index) == index + 1

\* ReplacePH's loop from the given index on
RECURSIVE ReplaceFrom(_, _)
ReplaceFrom(items, index) ==
    IF items = <<>> THEN <<>>
    ELSE IF Head(items) = <<"?">>
         THEN Dollar(index) \o ReplaceFrom(Tail(items), NextIndex(index))
         ELSE Head(items) \o ReplaceFrom(Tail(items), index)

\* ReplacePH (src/adapter.go:36-49)
ReplacePH(items) == ReplaceFrom(items, 1)

\* phConversions[q]: the zero value "" for a key the map does not hold
Lookup(cache, q) ==
    IF \E k \in 1..Len(cache) : cache[k].q = q
    THEN (CHOOSE c \in {cache[k] : k \in 1..Len(cache)} : c.q = q).r
    ELSE <<>>

\* ConvertPH (src/adapter.go:51-60): the value returned, "panic" for panic(err)
ConvertPH(cache, q) ==
    IF Lookup(cache, q) # <<>> THEN Lookup(cache, q)
    ELSE LET m == Match(q) IN
         IF m.err # "nil" THEN <<"panic">> ELSE ReplacePH(m.r)

\* a call ConvertPH(phq); the function stores nothing in phConversions
ConvertPHCall ==
    /\ phCalls < MaxPHCalls
    /\ phr' = ConvertPH(phConversions, phq)
    /\ phCalls' = phCalls + 1
    /\ UNCHANGED <<phConversions, phq>>

\* before the first call: the empty cache, any statement
InitPH ==
    /\ phConversions = <<>>
    /\ phq \in Statements
    /\ phr = <<>>
    /\ phCalls = 0

NextPH == ConvertPHCall /\ UNCHANGED <<txVars, regVars, xVars, sVars, rVars, restVars>>

\* DoBegin not called
IdleTx ==
    /\ level = ""
    /\ pc = "idle"
    /\ retry = FALSE
    /\ retErr = "nil"
    /\ tries = 0
    /\ tx = NoTx
    /\ handles = <<>>
    /\ dbRows = 0
    /\ e = "none"
    /\ wsteps = 0
    /\ workCalls = 0
    /\ conflictsLeft = 0
    /\ hist = [selfCommitted |-> FALSE, finAtPanic |-> FALSE, deferRb |-> FALSE,
               dbCommit |-> FALSE, rbErr |-> "nil"]

InitSpecPH == IdleTx /\ InitPH /\ IdleReg /\ IdleX /\ IdleS /\ IdleR /\ IdleRest

SpecPH == InitSpecPH /\ [][NextPH]_vars

------------------------------------------------------------------------------
\* Properties of ConvertPH, checked under SpecPH

\* Where a reader of q stands after q[1..i]: outside a literal ("out"), inside
\* one ("in"), or inside one right after a backslash ("esc").
RECURSIVE QuoteState(_, _)
QuoteState(q, i) ==
    IF i = 0 THEN "out"
    ELSE LET s == QuoteState(q, i - 1) IN
         CASE s = "out" -> IF q[i] = "'" THEN "in" ELSE "out"
           [] s = "in" -> IF q[i] = "'" THEN "out"
                           ELSE IF q[i] = "\\" THEN "esc" ELSE "in"
           [] OTHER -> "in"

\* every literal of q is closed
WellQuoted(q) == QuoteState(q, Len(q)) = "out"

\* q[i] is a placeholder marker outside every literal
IsMarker(q, i) == q[i] = "?" /\ QuoteState(q, i - 1) = "out"

\* the 1-based rank of the marker at i among q's markers
Rank(q, i) == Cardinality({j \in 1..i : IsMarker(q, j)})

\* q[1..i] with each marker replaced by $rank and every other character kept
RECURSIVE Rewritten(_, _)
Rewritten(q, i) ==
    IF i = 0 THEN <<>>
    ELSE Rewritten(q, i - 1) \o (IF IsMarker(q, i) THEN Dollar(Rank(q, i)) ELSE <<q[i]>>)

ExampleOut ==
    <<"S", "E", "L", "E", "C", "T", " ", "*", " ", "F", "R", "O", "M", " ", "t", " ",
      "W", "H", "E", "R", "E", " ", "a", "=", "$", "1", " ", "A", "N", "D", " ", "b",
      "=", "'", "e", "s", "c", "\\", "'", "a", "p", "e", "d", "?", "'", " ", "A",
      "N", "D", " ", "c", "=", "$", "2">>

\* C7: for every statement whose literals are all closed, ConvertPH returns
\* the statement with each '?' outside a literal replaced by $k, k its 1-based
\* rank among those markers, and every other character (the literals with
\* their escapes included) copied verbatim.
C7_MarkersOutsideLiteralsIndexed ==
    (phCalls > 0 /\ WellQuoted(phq)) => phr = Rewritten(phq, Len(phq))

\* C7 witness: the spec's scenario, escaped quote and '?' inside the literal.
C7_Witness ==
    /\ phCalls > 0 /\ WellQuoted(phq)
    /\ phq = ExampleStmt
    /\ phr = ExampleOut

------------------------------------------------------------------------------
\* Types and values as reflect shows them.  A type is named by its identity
\* (package path and name); Name() is the bare name.  Strings the code builds
\* or parses are sequences of one-character strings; field payloads are
\* strings.

\* the declared types: Name(), Kind(), the receiver of the type's Scan method
\* ("none": no Scan; "value"; "pointer"), and a struct's fields with their db
\* tag (empty: no db tag) and what the tag declares (col, null, autoinc)
TypeInfo(id) ==
    CASE id = "int64" ->
           [name |-> <<"i", "n", "t", "6", "4">>, kind |-> "int64", scan |-> "none", fields |-> <<>>]
      [] id = "string" ->
           [name |-> <<"s", "t", "r", "i", "n", "g">>, kind |-> "string", scan |-> "none", fields |-> <<>>]
      [] id = "modeldb.NullString" ->
           [name |-> <<"N", "u", "l", "l", "S", "t", "r", "i", "n", "g">>, kind |-> "string", scan |-> "pointer",
            fields |-> <<>>]
      [] id = "sql.NullString" ->
           [name |-> <<"N", "u", "l", "l", "S", "t", "r", "i", "n", "g">>, kind |-> "struct", scan |-> "pointer",
            fields |-> <<
              [Name |-> "String", Type |-> "string", tag |-> <<>>,
               mapped |-> FALSE, col |-> <<>>, null |-> FALSE, autoinc |-> FALSE],
              [Name |-> "Valid", Type |-> "bool", tag |-> <<>>,
               mapped |-> FALSE, col |-> <<>>, null |-> FALSE, autoinc |-> FALSE]>>]
      [] id = "main.ValScan" ->
           [name |-> <<"V", "a", "l", "S", "c", "a", "n">>, kind |-> "struct", scan |-> "value", fields |-> <<>>]
      [] id = "main.Item" ->
           [name |-> <<"I", "t", "e", "m">>, kind |-> "struct", scan |-> "none",
            fields |-> <<
              [Name |-> "Id", Type |-> "int64", tag |-> <<"i", "d", ",", "a", "u", "t", "o", "i", "n", "c">>,
               mapped |-> TRUE, col |-> <<"i", "d">>, null |-> FALSE, autoinc |-> TRUE],
              [Name |-> "Name", Type |-> "string", tag |-> <<"n", "a", "m", "e", ",", "n", "u", "l", "l">>,
               mapped |-> TRUE, col |-> <<"n", "a", "m", "e">>, null |-> TRUE, autoinc |-> FALSE]>>]
      [] id = "main.Gen" ->
           [name |-> <<"G", "e", "n">>, kind |-> "struct", scan |-> "none", fields |-> decl]
      [] id = "other.User" ->
           [name |-> <<"U", "s", "e", "r">>, kind |-> "struct", scan |-> "none",
            fields |-> <<
              [Name |-> "Name", Type |-> "string", tag |-> <<"n", "a", "m", "e">>,
               mapped |-> TRUE, col |-> <<"n", "a", "m", "e">>, null |-> FALSE, autoinc |-> FALSE]>>]
      [] id = "main.User" ->
           [name |-> <<"U", "s", "e", "r">>, kind |-> "struct", scan |-> "none",
            fields |-> <<
              [Name |-> "Id", Type |-> "int64", tag |-> <<"i", "d", ",", "a", "u", "t", "o", "i", "n", "c">>,
               mapped |-> TRUE, col |-> <<"i", "d">>, null |-> FALSE, autoinc |-> TRUE],
              [Name |-> "Email", Type |-> "string", tag |-> <<"e", "m", "a", "i", "l", ",", "n", "u", "l", "l">>,
               mapped |-> TRUE, col |-> <<"e", "m", "a", "i", "l">>, null |-> TRUE, autoinc |-> FALSE],
              [Name |-> "Age", Type |-> "int64", tag |-> <<"a", "g", "e", ",", "n", "u", "l", "l">>,
               mapped |-> TRUE, col |-> <<"a", "g", "e">>, null |-> TRUE, autoinc |-> FALSE],
              [Name |-> "Token", Type |-> "string", tag |-> <<"t", "o", "k", "e", "n">>,
               mapped |-> TRUE, col |-> <<"t", "o", "k", "e", "n">>, null |-> FALSE, autoinc |-> FALSE],
              [Name |-> "Note", Type |-> "string", tag |-> <<>>,
               mapped |-> FALSE, col |-> <<>>, null |-> FALSE, autoinc |-> FALSE]>>]

StructIds == {"sql.NullString", "main.ValScan", "main.User", "other.User", "main.Item", "main.Gen"}

\* the keys allModelInfos can come to hold
ModelNames == {TypeInfo(id).name : id \in StructIds}

\* a reflect.Type: a declared type under ptr levels of pointer; NilType is the
\* nil reflect.Type that reflect.TypeOf(nil) returns
NilType == [id |-> "nil", ptr |-> 0]

\* a value: its type, the payload of a scalar, the field payloads of a struct
\* in declaration order; NilValue is the untyped nil
NilValue == [t |-> "nil", ptr |-> 0, val |-> "", fv |-> <<>>]

Scalar(t, val) == [t |-> t, ptr |-> 0, val |-> val, fv |-> <<>>]

\* reflect.TypeOf(i)
TypeOf(v) == IF v = NilValue THEN NilType ELSE [id |-> v.t, ptr |-> v.ptr]

\* modelType.Kind()
Kind(rt) == IF rt.ptr > 0 THEN "ptr" ELSE TypeInfo(rt.id).kind

\* (variant: the pointer is not dereferenced)
Elem_Same(rt) == rt

\* modelType.Elem()
Elem(rt) == [rt EXCEPT !.ptr = @ - 1]

\* modelType.Implements(sql.Scanner): a non-pointer type's method set holds
\* its value-receiver methods only, a pointer type's those of its base type
ImplementsScanner(rt) ==
    IF rt.ptr = 0 THEN TypeInfo(rt.id).scan = "value"
    ELSE rt.ptr = 1 /\ TypeInfo(rt.id).scan \in {"value", "pointer"}

\* reflect.Zero(field.Type).Interface()
Zero(t) == CASE t = "int64" -> "0" [] t = "bool" -> "false" [] OTHER -> ""

\* strings.ToLower, over the letters of the declared names
LowerChar(c) ==
    CASE c = "U" -> "u" [] c = "N" -> "n" [] c = "S" -> "s" [] c = "V" -> "v"
      [] c = "G" -> "g" [] c = "I" -> "i"
      [] OTHER -> c

ToLower(str) == [i \in 1..Len(str) |-> LowerChar(str[i])]

\* strings.Split(str, ","): the parts between the commas
RECURSIVE Split(_)
Split(str) ==
    IF \A i \in 1..Len(str) : str[i] # "," THEN <<str>>
    ELSE LET k == CHOOSE i \in 1..Len(str) :
                    str[i] = "," /\ \A j \in 1..(i - 1) : str[j] # ","
         IN  <<SubSeq(str, 1, k - 1)>> \o Split(SubSeq(str, k + 1, Len(str)))

\* strings.Join(parts, sep)
RECURSIVE Join(_, _)
Join(parts, sep) ==
    IF parts = <<>> THEN <<>>
    ELSE IF Len(parts) = 1 THEN parts[1]
    ELSE parts[1] \o sep \o Join(Tail(parts), sep)

\* parseDBTag (src/modeldb.go:142-154)
ParseDBTag(tag) ==
    LET parts == Split(tag) IN
    [fieldName |-> parts[1],
     null |-> \E i \in 2..Len(parts) : parts[i] = <<"n", "u", "l", "l">>,
     autoinc |-> \E i \in 2..Len(parts) : parts[i] = <<"a", "u", "t", "o", "i", "n", "c">>]

\* &ModelInfo{}
EmptyInfo ==
    [Type |-> "", TableName |-> <<>>, Fields |-> <<>>, FieldsSimple |-> <<>>,
     FieldsPrefixed |-> <<>>, FieldsInsert |-> <<>>, Placeholders |-> <<>>]

\* m.Type = modelType; m.TableName = strings.ToLower(modelName)
WithType(m, id) ==
    [m EXCEPT !.Type = id, !.TableName = ToLower(TypeInfo(id).name)]

\* one round of the loop over the type's fields (lines 113-119)
WithField(m, i) ==
    LET field == TypeInfo(m.Type).fields[i] IN
    IF field.tag # <<>>
    THEN LET p == ParseDBTag(field.tag) IN
         [m EXCEPT !.Fields = Append(@, [Name |-> field.Name, Type |-> field.Type,
                                         tag |-> field.tag, Column |-> p.fieldName,
                                         Null |-> p.null, Autoinc |-> p.autoinc])]
    ELSE m

RECURSIVE WithFieldsFrom(_, _)
WithFieldsFrom(m, i) ==
    IF i > Len(TypeInfo(m.Type).fields) THEN m ELSE WithFieldsFrom(WithField(m, i), i + 1)

\* fieldNames, fieldInsertNames and ph of the loop over m.Fields (lines 122-132)
FieldNames(fields) == [i \in 1..Len(fields) |-> ParseDBTag(fields[i].tag).fieldName]

\* (variant: the autoincrement fields are not left out)
FieldInsertNames_WithAutoinc(fields) ==
    [i \in 1..Len(fields) |-> ParseDBTag(fields[i].tag).fieldName]

FieldInsertNames(fields) ==
    LET ins == SelectSeq(fields, LAMBDA f : ~f.Autoinc) IN
    [i \in 1..Len(ins) |-> ParseDBTag(ins[i].tag).fieldName]

Ph(fields) ==
    LET ins == SelectSeq(fields, LAMBDA f : ~f.Autoinc) IN
    [i \in 1..Len(ins) |-> Dollar(i)]

\* the four derived strings (lines 134-137)
WithStrings(m) ==
    [m EXCEPT
       !.FieldsSimple = Join(FieldNames(m.Fields), <<",", " ">>),
       !.FieldsPrefixed =
           m.TableName \o <<".">> \o Join(FieldNames(m.Fields), <<",", " ">> \o m.TableName \o <<".">>),
       !.FieldsInsert = Join(FieldInsertNames(m.Fields), <<",", " ">>),
       !.Placeholders = Join(Ph(m.Fields), <<",", " ">>)]

\* allModelInfos[modelName], nil (0) for a key the map does not hold
CacheRef(cache, name) == IF name \in DOMAIN cache THEN cache[name] ELSE 0

\* allModelInfos[modelName] = m
CachePut(cache, name, ref) ==
    [k \in (DOMAIN cache) \cup {name} |-> IF k = name THEN ref ELSE cache[k]]

\* GetModelInfoFromType (src/modeldb.go:87-140) run by one goroutine from
\* call to return on the registry reg = [cache, infos]: the registry after
\* it, the reference returned (0: nil) and whether the call panicked (a
\* method call on the nil reflect.Type)
GetModelInfoFromType(reg, rt) ==
    IF rt = NilType THEN [reg |-> reg, ref |-> 0, panic |-> TRUE]
    ELSE LET modelType == IF Kind(rt) = "ptr" THEN Elem(rt) ELSE rt IN
         IF Kind(modelType) # "struct" THEN [reg |-> reg, ref |-> 0, panic |-> FALSE]
         ELSE IF ImplementsScanner(modelType)
              THEN [reg |-> reg, ref |-> 0, panic |-> FALSE]
         ELSE LET modelName == TypeInfo(modelType.id).name IN
              IF CacheRef(reg.cache, modelName) # 0
              THEN [reg |-> reg, ref |-> CacheRef(reg.cache, modelName), panic |-> FALSE]
              ELSE LET m == WithStrings(WithFieldsFrom(WithType(EmptyInfo, modelType.id), 1))
                       ref == Len(reg.infos) + 1
                   IN  [reg |-> [cache |-> CachePut(reg.cache, modelName, ref),
                                 infos |-> Append(reg.infos, m)],
                        ref |-> ref, panic |-> FALSE]

\* GetModelInfo (src/modeldb.go:81-84)
GetModelInfo(reg, v) == GetModelInfoFromType(reg, TypeOf(v))

\* v.FieldByName(name): the payload of the struct value's field of that name
FieldByName(v, name) ==
    LET fs == TypeInfo(v.t).fields
        k == CHOOSE i \in 1..Len(fs) : fs[i].Name = name
    IN  v.fv[k]

\* one round of FieldValues' loop (lines 168-178): what the field adds to fvs
FieldValue(field, payload) ==
    IF field.Autoinc THEN <<>>
    ELSE IF field.Null /\ payload = Zero(field.Type) THEN <<NilValue>>
    ELSE <<Scalar(field.Type, payload)>>

RECURSIVE FieldValuesFrom(_, _, _)
FieldValuesFrom(m, v, i) ==
    IF i > Len(m.Fields) THEN <<>>
    ELSE FieldValue(m.Fields[i], FieldByName(v, m.Fields[i].Name))
             \o FieldValuesFrom(m, v, i + 1)

\* ModelInfo.FieldValues (src/modeldb.go:157-180); v.Elem() of a pointer, the
\* log.Panicf on a type other than m.Type
FieldValues(m, i) ==
    LET v == IF i.ptr > 0 THEN [i EXCEPT !.ptr = @ - 1] ELSE i IN
    IF TypeOf(v) # [id |-> m.Type, ptr |-> 0] THEN [panic |-> TRUE, fvs |-> <<>>]
    ELSE [panic |-> FALSE, fvs |-> FieldValuesFrom(m, v, 1)]

\* expandArgs' loop from argument i on (src/modeldb.go:186-197)
RECURSIVE ExpandFrom(_, _, _, _)
ExpandFrom(reg, args, i, a) ==
    IF i > Len(args) THEN [reg |-> reg, panic |-> FALSE, a |-> a]
    ELSE LET g == GetModelInfo(reg, args[i]) IN
         IF g.panic THEN [reg |-> g.reg, panic |-> TRUE, a |-> a]
         ELSE IF g.ref = 0 THEN ExpandFrom(g.reg, args, i + 1, Append(a, args[i]))
         ELSE LET f == FieldValues(g.reg.infos[g.ref], args[i]) IN
              IF f.panic THEN [reg |-> g.reg, panic |-> TRUE, a |-> a]
              ELSE ExpandFrom(g.reg, args, i + 1, a \o f.fvs)

\* the values a caller passes
UserValues ==
    {[t |-> "main.User", ptr |-> p, val |-> "", fv |-> <<id, email, age, token, "n">>] :
        p \in {0, 1}, id \in {"0", "7"}, email \in {"", "x"}, age \in {"0", "7"},
        token \in {"", "t"}}

ScalarValues ==
    {NilValue, Scalar("int64", "0"), Scalar("int64", "7"), Scalar("string", "x"),
     [t |-> "int64", ptr |-> 1, val |-> "7", fv |-> <<>>],
     Scalar("modeldb.NullString", "x"),
     [t |-> "sql.NullString", ptr |-> 0, val |-> "", fv |-> <<"x", "true">>],
     [t |-> "sql.NullString", ptr |-> 1, val |-> "", fv |-> <<"x", "true">>],
     [t |-> "main.ValScan", ptr |-> 0, val |-> "", fv |-> <<>>]}

ArgLists == UNION {[1..n -> UserValues \cup ScalarValues] : n \in 0..MaxArgs}

\* a call expandArgs(xargs...)
ExpandArgsCall ==
    /\ xres = <<>>
    /\ LET r == ExpandFrom([cache |-> allModelInfos, infos |-> infos], xargs, 1, <<>>) IN
        /\ allModelInfos' = r.reg.cache
        /\ infos' = r.reg.infos
        /\ xres' = <<[panic |-> r.panic, a |-> r.a]>>
    /\ UNCHANGED xargs

InitX ==
    /\ xargs \in ArgLists
    /\ xres = <<>>

NextX == ExpandArgsCall /\ UNCHANGED <<txVars, phVars, sVars, rVars, restVars>>

InitSpecX == IdleTx /\ IdlePH /\ IdleReg /\ InitX /\ IdleS /\ IdleR /\ IdleRest

SpecX == InitSpecX /\ [][NextX]_vars

------------------------------------------------------------------------------
\* Properties of expandArgs, checked under SpecX

\* an argument that is a record: a struct (or a pointer to one) with mapped
\* fields that is not of a scanner type
IsRecord(v) ==
    /\ v # NilValue
    /\ v.ptr <= 1
    /\ TypeInfo(v.t).kind = "struct"
    /\ TypeInfo(v.t).scan = "none"

\* what the claim has a record's field contribute
ClaimedField(f, payload) ==
    IF ~f.mapped \/ f.autoinc THEN <<>>
    ELSE IF f.null /\ payload = Zero(f.Type) THEN <<NilValue>>
    ELSE <<Scalar(f.Type, payload)>>

RECURSIVE ClaimedRecord(_, _)
ClaimedRecord(v, i) ==
    IF i > Len(TypeInfo(v.t).fields) THEN <<>>
    ELSE ClaimedField(TypeInfo(v.t).fields[i], v.fv[i]) \o ClaimedRecord(v, i + 1)

RECURSIVE ClaimedArgs(_, _)
ClaimedArgs(args, i) ==
    IF i > Len(args) THEN <<>>
    ELSE (IF IsRecord(args[i]) THEN ClaimedRecord(args[i], 1) ELSE <<args[i]>>)
             \o ClaimedArgs(args, i + 1)

\* C8 (as stated): expandArgs(args) is the concatenation, in argument order,
\* of each argument without a record descriptor unchanged (a nil argument and
\* values of scanner types included) and of each record's mapped field values
\* without the autoincrement fields, a zero nullable field sent as nil.
C8_ExpandArgsFlattens ==
    xres # <<>> => (~xres[1].panic /\ xres[1].a = ClaimedArgs(xargs, 1))

------------------------------------------------------------------------------
\* scanStruct (src/modeldb.go:205-234) and the Null* wrappers (489-509).  A
\* column is [null, t, val]: SQL NULL, or a driver value of type t.  A scan
\* target is the address of a whole dest ("dest"), the address of a dest's
\* field ("field"), or the address of a local NullString / NullInt64.

\* isScanner(d), d a pointer to a value of type t
IsScanner(t) == TypeInfo(t).scan \in {"value", "pointer"}

\* the target a field of dest k adds (lines 215-229): "panic" for a nullable
\* field of a type without a wrapper
FieldTarget(k, v, field) ==
    IF field.Null
    THEN CASE TypeInfo(field.Type).name = <<"s", "t", "r", "i", "n", "g">> ->
                [kind |-> "NullString", d |-> k, name |-> field.Name,
                 init |-> FieldByName(v, field.Name)]
           [] TypeInfo(field.Type).name = <<"i", "n", "t", "6", "4">> ->
                [kind |-> "NullInt64", d |-> k, name |-> field.Name,
                 init |-> FieldByName(v, field.Name)]
           [] OTHER -> [kind |-> "panic", d |-> k, name |-> field.Name, init |-> ""]
    ELSE [kind |-> "field", d |-> k, name |-> field.Name, init |-> ""]

\* destValuesP of the dests k.. (lines 206-232), with the registry threaded
\* through the calls of GetModelInfoFromType
RECURSIVE TargetsFrom(_, _, _)

\* the targets ts ahead of the targets of the later dests
Prepend(ts, rest) == [reg |-> rest.reg, ts |-> ts \o rest.ts]

\* lines 214-230: one target per field of the descriptor m of dest k
FieldTargets(k, dValue, m) ==
    [i \in 1..Len(m.Fields) |-> FieldTarget(k, dValue, m.Fields[i])]

\* lines 213-230, g the outcome of GetModelInfoFromType(dValue.Type())
RecordTargets(g, dest, k) ==
    Prepend(FieldTargets(k, dest[k], g.reg.infos[g.ref]), TargetsFrom(g.reg, dest, k + 1))

TargetsFrom(reg, dest, k) ==
    IF k > Len(dest) THEN [reg |-> reg, ts |-> <<>>]
    ELSE IF TypeInfo(dest[k].t).kind # "struct" \/ IsScanner(dest[k].t)
         THEN Prepend(<<[kind |-> "dest", d |-> k, name |-> "", init |-> ""]>>,
                      TargetsFrom(reg, dest, k + 1))
         ELSE RecordTargets(GetModelInfoFromType(reg, [id |-> dest[k].t, ptr |-> 0]),
                            dest, k)

\* the struct value v with its field of that name set
SetField(v, name, payload) ==
    LET fs == TypeInfo(v.t).fields
        k == CHOOSE i \in 1..Len(fs) : fs[i].Name = name
    IN  [v EXCEPT !.fv[k] = payload]

\* NullString.Scan / NullInt64.Scan: the wrapper's value after Scan(col)
\* ("panic": the type assertion on a driver value of another type fails)
NullScan(kind, col) ==
    IF col.null THEN (IF kind = "NullString" THEN "" ELSE "0")
    ELSE IF kind = "NullString" /\ col.t = "bytes" THEN col.val
    ELSE IF kind = "NullInt64" /\ col.t = "int64" THEN col.val
    ELSE "panic"

\* what the row's Scan writes through target t: a write through the address
\* of a dest or of a field changes the dest, a wrapper's Scan changes the
\* local ns / ni only
WriteTarget(dest, t, col) ==
    CASE t.kind = "dest" -> [dest EXCEPT ![t.d].val = col.val]
      [] t.kind = "field" -> [dest EXCEPT ![t.d] = SetField(@, t.name, col.val)]
      [] OTHER -> dest

\* scanner.Scan(destValuesP...): the columns are assigned in order; a column
\* count other than the target count and a NULL for a target that is no
\* Scanner are errors
RECURSIVE RowScanFrom(_, _, _, _, _)
RowScanFrom(row, ts, i, dest, locals) ==
    IF i > Len(ts) THEN [err |-> "nil", panic |-> FALSE, dest |-> dest, locals |-> locals]
    ELSE IF ts[i].kind \in {"NullString", "NullInt64"}
         THEN IF NullScan(ts[i].kind, row[i]) = "panic"
              THEN [err |-> "nil", panic |-> TRUE, dest |-> dest, locals |-> locals]
              ELSE RowScanFrom(row, ts, i + 1, WriteTarget(dest, ts[i], row[i]),
                               Append(locals, NullScan(ts[i].kind, row[i])))
         ELSE IF row[i].null
              THEN [err |-> "convertNull", panic |-> FALSE, dest |-> dest,
                    locals |-> locals]
              ELSE RowScanFrom(row, ts, i + 1, WriteTarget(dest, ts[i], row[i]), locals)

RowScan(row, ts, dest) ==
    IF Len(row) # Len(ts)
    THEN [err |-> "columnCount", panic |-> FALSE, dest |-> dest, locals |-> <<>>]
    ELSE RowScanFrom(row, ts, 1, dest, <<>>)

\* line 233: return scanner.Scan(destValuesP...), t the targets built
ScanTargets(t, row, dest) ==
    IF \E i \in 1..Len(t.ts) : t.ts[i].kind = "panic"
    THEN [err |-> "nil", panic |-> TRUE, dest |-> dest, locals |-> <<>>]
    ELSE RowScan(row, t.ts, dest)

\* the outcome r of the scan beside the registry the call leaves
WithRegistry(t, r) ==
    [reg |-> t.reg, err |-> r.err, panic |-> r.panic, dest |-> r.dest,
     locals |-> r.locals]

ScanWith(t, row, dest) == WithRegistry(t, ScanTargets(t, row, dest))

\* scanStruct: the registry, the dests and the outcome after the call
ScanStruct(reg, row, dest) == ScanWith(TargetsFrom(reg, dest, 1), row, dest)

\* the dests a caller passes: a record, alone or beside a string
DestRecords ==
    {[t |-> "main.User", ptr |-> 0, val |-> "", fv |-> <<id, email, age, token, "n">>] :
        id \in {"0", "5"}, email \in {"", "old"}, age \in {"0", "5"}, token \in {"", "old"}}

DestLists ==
    {<<u>> : u \in DestRecords}
      \cup {<<u, Scalar("string", "old")>> : u \in DestRecords}
      \cup {<<Scalar("string", "old"), u>> : u \in DestRecords}

\* the columns the backend sends for a value of declared type t
Columns(t) ==
    IF t = "int64"
    THEN {[null |-> TRUE, t |-> "int64", val |-> ""],
          [null |-> FALSE, t |-> "int64", val |-> "7"],
          [null |-> FALSE, t |-> "int64", val |-> "8"]}
    ELSE {[null |-> TRUE, t |-> "bytes", val |-> ""],
          [null |-> FALSE, t |-> "bytes", val |-> "x"]}

\* the declared types of the columns a select of the dests' mapped fields yields
RECURSIVE Layout(_, _)
Layout(dest, k) ==
    IF k > Len(dest) THEN <<>>
    ELSE (IF TypeInfo(dest[k].t).kind = "struct"
          THEN LET fs == SelectSeq(TypeInfo(dest[k].t).fields, LAMBDA f : f.mapped) IN
               [i \in 1..Len(fs) |-> fs[i].Type]
          ELSE <<dest[k].t>>) \o Layout(dest, k + 1)

\* the rows: one column per mapped field, or the last column missing
RowsFor(dest) ==
    LET lay == Layout(dest, 1)
        full == {r \in [1..Len(lay) -> Columns("int64") \cup Columns("string")] :
                    \A i \in 1..Len(lay) : r[i] \in Columns(lay[i])}
    IN  full \cup {SubSeq(r, 1, Len(r) - 1) : r \in full}

\* the caller's state once scanStruct has left outcome r
ScanStructReturn(r) ==
    /\ allModelInfos' = r.reg.cache
    /\ infos' = r.reg.infos
    /\ sdest' = r.dest
    /\ sres' = <<[panic |-> r.panic, err |-> r.err, locals |-> r.locals]>>

\* a call scanStruct(row, &sdest[1], ...)
ScanStructCall ==
    /\ sres = <<>>
    /\ ScanStructReturn(ScanStruct([cache |-> allModelInfos, infos |-> infos], srow, sdest))
    /\ UNCHANGED srow

InitS ==
    /\ sdest \in DestLists
    /\ srow \in RowsFor(sdest)
    /\ sres = <<>>

NextS == ScanStructCall /\ UNCHANGED <<txVars, phVars, xVars, rVars, restVars>>

InitSpecS == IdleTx /\ IdlePH /\ IdleReg /\ IdleX /\ InitS /\ IdleR /\ IdleRest

SpecS == InitSpecS /\ [][NextS]_vars

------------------------------------------------------------------------------
\* Properties of scanStruct, checked under SpecS

\* the value a column decodes to in a field of declared type t
Decoded(col, t) == IF col.null THEN Zero(t) ELSE col.val

\* the position in the row of the first column of dest k
RECURSIVE ColumnBase(_, _)
ColumnBase(dest, k) == IF k = 1 THEN 0 ELSE Len(Layout(<<dest[k - 1]>>, 1)) + ColumnBase(dest, k - 1)

\* dest k, a record, holds in each mapped field the decoded column at the
\* field's position
RecordHoldsRow(dest, k, row) ==
    LET all == TypeInfo(dest[k].t).fields
        idx == SelectSeq([i \in 1..Len(all) |-> i], LAMBDA i : all[i].mapped)
    IN  \A j \in 1..Len(idx) :
            dest[k].fv[idx[j]] = Decoded(row[ColumnBase(dest, k) + j], all[idx[j]].Type)

\* C9 (as stated): after a successful scan of a row into a record, every
\* mapped field of the record, autoincrement and nullable fields included,
\* holds the decoded value of the column at its position, a NULL column giving
\* a nullable field its zero value.
C9_FieldsHoldDecodedRow ==
    (sres # <<>> /\ ~sres[1].panic /\ sres[1].err = "nil") =>
        \A k \in 1..Len(sdest) :
            TypeInfo(sdest[k].t).kind = "struct" => RecordHoldsRow(sdest, k, srow)

------------------------------------------------------------------------------
\* GetModelInfoFromType (src/modeldb.go:87-140) called by several goroutines.
\* The function takes no lock: each goroutine runs it statement by statement,
\* and a map access that overlaps another goroutine's map write is a data
\* race, whose read yields the old entry, the new entry, or the runtime's
\* fatal error ("concurrent map read and map write").

Procs == 1..NumProcs

\* the record types the goroutines describe
DescribedTypes == {"main.User", "sql.NullString"}

\* the entry a read of allModelInfos[name] by p can yield
ReadOutcomes(p, name) ==
    {CacheRef(allModelInfos, name)}
      \cup {rm[w] : w \in {w \in mapWriters \ {p} : TypeInfo(rty[w]).name = name}}

\* line 101: if allModelInfos[modelName] != nil
R_CheckCache ==
  \E p \in Procs :
    /\ rpc[p] = "call"
    /\ raced' = (raced \/ mapWriters \ {p} # {})
    /\ \/ \E ref \in ReadOutcomes(p, TypeInfo(rty[p]).name) :
            rpc' = [rpc EXCEPT ![p] = IF ref # 0 THEN "hit" ELSE "construct"]
       \/ /\ mapWriters \ {p} # {}
          /\ rpc' = [q \in Procs |-> "fatal"]
    /\ UNCHANGED <<rty, rm, ri, rgot, mapWriters, regVars>>

\* line 102: return allModelInfos[modelName]
R_ReturnCached ==
  \E p \in Procs :
    /\ rpc[p] = "hit"
    /\ raced' = (raced \/ mapWriters \ {p} # {})
    /\ \E ref \in ReadOutcomes(p, TypeInfo(rty[p]).name) :
        /\ rgot' = [rgot EXCEPT ![p] =
                      <<[ref |-> ref, m |-> IF ref = 0 THEN EmptyInfo ELSE infos[ref]]>>]
        /\ rpc' = [rpc EXCEPT ![p] = "done"]
    /\ UNCHANGED <<rty, rm, ri, mapWriters, regVars>>

\* line 106, and line 107's map write begun: m := &ModelInfo{}
R_Construct ==
  \E p \in Procs :
    /\ rpc[p] = "construct"
    /\ infos' = Append(infos, EmptyInfo)
    /\ rm' = [rm EXCEPT ![p] = Len(infos) + 1]
    /\ mapWriters' = mapWriters \cup {p}
    /\ rpc' = [rpc EXCEPT ![p] = "publish"]
    /\ UNCHANGED <<rty, ri, rgot, raced, allModelInfos>>

\* line 107's map write done: allModelInfos[modelName] = m
R_Publish ==
  \E p \in Procs :
    /\ rpc[p] = "publish"
    /\ allModelInfos' = CachePut(allModelInfos, TypeInfo(rty[p]).name, rm[p])
    /\ mapWriters' = mapWriters \ {p}
    /\ rpc' = [rpc EXCEPT ![p] = "type"]
    /\ UNCHANGED <<rty, rm, ri, rgot, raced, infos>>

\* lines 108-109
R_SetType ==
  \E p \in Procs :
    /\ rpc[p] = "type"
    /\ infos' = [infos EXCEPT ![rm[p]] = WithType(@, rty[p])]
    /\ ri' = [ri EXCEPT ![p] = 1]
    /\ rpc' = [rpc EXCEPT ![p] = "fields"]
    /\ UNCHANGED <<rty, rm, rgot, mapWriters, raced, allModelInfos>>

\* lines 113-119: one round of the loop, or its end
R_Field ==
  \E p \in Procs :
    /\ rpc[p] = "fields"
    /\ IF ri[p] <= Len(TypeInfo(rty[p]).fields)
       THEN /\ infos' = [infos EXCEPT ![rm[p]] = WithField(@, ri[p])]
            /\ ri' = [ri EXCEPT ![p] = @ + 1]
            /\ UNCHANGED rpc
       ELSE /\ rpc' = [rpc EXCEPT ![p] = "strings"]
            /\ UNCHANGED <<infos, ri>>
    /\ UNCHANGED <<rty, rm, rgot, mapWriters, raced, allModelInfos>>

\* lines 122-137
R_Strings ==
  \E p \in Procs :
    /\ rpc[p] = "strings"
    /\ infos' = [infos EXCEPT ![rm[p]] = WithStrings(@)]
    /\ rpc' = [rpc EXCEPT ![p] = "return"]
    /\ UNCHANGED <<rty, rm, ri, rgot, mapWriters, raced, allModelInfos>>

\* line 139: return m
R_Return ==
  \E p \in Procs :
    /\ rpc[p] = "return"
    /\ rgot' = [rgot EXCEPT ![p] = <<[ref |-> rm[p], m |-> infos[rm[p]]]>>]
    /\ rpc' = [rpc EXCEPT ![p] = "done"]
    /\ UNCHANGED <<rty, rm, ri, mapWriters, raced, regVars>>

\* every goroutine at its call, the registry empty
InitR ==
    /\ rty \in [Procs -> DescribedTypes]
    /\ rpc = [p \in Procs |-> "call"]
    /\ rm = [p \in Procs |-> 0]
    /\ ri = [p \in Procs |-> 0]
    /\ rgot = [p \in Procs |-> <<>>]
    /\ mapWriters = {}
    /\ raced = FALSE

NextRActions ==
    \/ R_CheckCache
    \/ R_ReturnCached
    \/ R_Construct
    \/ R_Publish
    \/ R_SetType
    \/ R_Field
    \/ R_Strings
    \/ R_Return

NextR == NextRActions /\ UNCHANGED <<txVars, phVars, xVars, sVars, restVars>>

InitSpecR == IdleTx /\ IdlePH /\ IdleReg /\ IdleX /\ IdleS /\ InitR /\ IdleRest

SpecR == InitSpecR /\ [][NextR]_vars

------------------------------------------------------------------------------
\* Properties of the registry under concurrent calls, checked under SpecR

\* the descriptor of type id with its Fields and derived strings populated
FullyBuilt(id) == WithStrings(WithFieldsFrom(WithType(EmptyInfo, id), 1))

\* C10 (as stated): a caller of GetModelInfoFromType is handed no entry or a
\* fully built descriptor, never one whose field list or derived strings are
\* still being built, and allModelInfos is never read while it is written.
C10_NoPartialDescriptorNoRace ==
    /\ ~raced
    /\ \A p \in Procs :
        (rgot # <<>> /\ rgot[p] # <<>> /\ rgot[p][1].ref # 0)
            => rgot[p][1].m = FullyBuilt(rty[p])

\* the goroutines past line 107 for a type of that name
Published(name) ==
    {p \in Procs : TypeInfo(rty[p]).name = name
                     /\ rpc[p] \in {"type", "fields", "strings", "return", "done"}
                     /\ rm[p] # 0}

\* C11 (as stated): for a record type the descriptor is built at most once,
\* every call for the type returns that one descriptor, and a cache entry
\* once published is never replaced, also when the first calls for the type
\* run concurrently.
C11_BuiltOnceSameDescriptor ==
    \A p \in Procs : \A q \in Procs :
        (TypeInfo(rty[p]).scan = "none" /\ rty[p] = rty[q]) =>
            /\ (rm[p] # 0 /\ rm[q] # 0) => rm[p] = rm[q]
            /\ (rgot[p] # <<>> /\ rgot[q] # <<>>) => rgot[p][1].ref = rgot[q][1].ref
            /\ p \in Published(TypeInfo(rty[p]).name) =>
                   CacheRef(allModelInfos, TypeInfo(rty[p]).name) = rm[p]

------------------------------------------------------------------------------
\* GetModelInfoFromType (src/modeldb.go:87-140) called one call after the
\* other, on a program that declares the struct type main.Gen with the fields
\* decl.

\* the db tags a field can carry: none, `c`, `c,null`, `c,autoinc`,
\* `c,null,autoinc`
TagOptions == {"none", "plain", "null", "autoinc", "both"}

\* the i-th declared field of main.Gen, carrying the tag option o
GenField(i, o) ==
    LET col == <<<<"a">>, <<"b">>, <<"c">>, <<"d">>, <<"e">>>>[i] IN
    [Name |-> <<"A", "B", "C", "D", "E">>[i],
     Type |-> IF i % 2 = 1 THEN "int64" ELSE "string",
     tag |-> CASE o = "none" -> <<>>
               [] o = "plain" -> col
               [] o = "null" -> col \o <<",", "n", "u", "l", "l">>
               [] o = "autoinc" -> col \o <<",", "a", "u", "t", "o", "i", "n", "c">>
               [] o = "both" -> col \o <<",", "n", "u", "l", "l", ",", "a", "u", "t", "o", "i", "n", "c">>,
     mapped |-> o # "none",
     col |-> IF o = "none" THEN <<>> ELSE col,
     null |-> o \in {"null", "both"},
     autoinc |-> o \in {"autoinc", "both"}]

\* the declaration `Id int64 db:"id,autoinc"; Email string db:"email,null";
\* Token string db:"token"`
ExampleDecl ==
    <<[Name |-> "Id", Type |-> "int64", tag |-> <<"i", "d", ",", "a", "u", "t", "o", "i", "n", "c">>,
       mapped |-> TRUE, col |-> <<"i", "d">>, null |-> FALSE, autoinc |-> TRUE],
      [Name |-> "Email", Type |-> "string", tag |-> <<"e", "m", "a", "i", "l", ",", "n", "u", "l", "l">>,
       mapped |-> TRUE, col |-> <<"e", "m", "a", "i", "l">>, null |-> TRUE, autoinc |-> FALSE],
      [Name |-> "Token", Type |-> "string", tag |-> <<"t", "o", "k", "e", "n">>,
       mapped |-> TRUE, col |-> <<"t", "o", "k", "e", "n">>, null |-> FALSE, autoinc |-> FALSE]>>

\* the declarations of main.Gen: up to MaxFields fields
Declarations ==
    {ExampleDecl} \cup
    UNION {{[i \in 1..n |-> GenField(i, os[i])] : os \in [1..n -> TagOptions]} :
              n \in 0..MaxFields}

\* the reflect.Types the calls are made with
DescribeTypes ==
    {[id |-> "main.Gen", ptr |-> 0], [id |-> "main.Gen", ptr |-> 1],
     [id |-> "main.User", ptr |-> 0], [id |-> "other.User", ptr |-> 0],
     [id |-> "int64", ptr |-> 0], [id |-> "string", ptr |-> 1],
     [id |-> "main.ValScan", ptr |-> 0], [id |-> "modeldb.NullString", ptr |-> 1],
     [id |-> "sql.NullString", ptr |-> 0], [id |-> "main.User", ptr |-> 2], NilType}

\* the caller's state once the call with rt has left outcome g
DescribeReturn(rt, g) ==
    /\ allModelInfos' = g.reg.cache
    /\ infos' = g.reg.infos
    /\ dgot' = Append(dgot, [rt |-> rt, ref |-> g.ref, panic |-> g.panic])

\* a call GetModelInfoFromType(rt)
DescribeCall ==
    /\ Len(dgot) < MaxDescribes
    /\ \E rt \in DescribeTypes :
          DescribeReturn(rt, GetModelInfoFromType([cache |-> allModelInfos, infos |-> infos], rt))
    /\ UNCHANGED decl

InitD ==
    /\ decl \in Declarations
    /\ dgot = <<>>

NextD == DescribeCall /\ UNCHANGED <<txVars, phVars, xVars, sVars, rVars, gVars, qVars, eVars>>

InitSpecD == IdleTx /\ IdlePH /\ IdleReg /\ IdleX /\ IdleS /\ IdleR /\ InitD /\ IdleG /\ IdleQ /\ IdleE

SpecD == InitSpecD /\ [][NextD]_vars

------------------------------------------------------------------------------
\* Properties of the descriptors, checked under SpecD

\* the column names of the declared fields fs that satisfy keep, in
\* declaration order
ColumnsOf(fs, keep(_)) ==
    LET sel == SelectSeq(fs, keep) IN [i \in 1..Len(sel) |-> sel[i].col]

\* n placeholder tokens
Tokens(n) == [i \in 1..n |-> Dollar(i)]

\* the descriptor m lists the declared type's K mapped fields and no others,
\* its insertable list is the full list without the M autoincrement columns,
\* and its placeholder fragment has K-M tokens
ListsAsDeclared(m) ==
    LET fs == TypeInfo(m.Type).fields
        full == ColumnsOf(fs, LAMBDA f : f.mapped)
        ins == ColumnsOf(fs, LAMBDA f : f.mapped /\ ~f.autoinc)
    IN  /\ [i \in 1..Len(m.Fields) |-> m.Fields[i].Column] = full
        /\ m.FieldsSimple = Join(full, <<",", " ">>)
        /\ m.FieldsInsert = Join(ins, <<",", " ">>)
        /\ m.Placeholders = Join(Tokens(Len(ins)), <<",", " ">>)

\* C12: every descriptor built has a full column list of the K mapped fields
\* in declaration order, an insertable list of those K-M that are not
\* autoincrement, and a placeholder fragment of K-M tokens; fields without a
\* db tag appear in none; the fields id (autoinc), email (null), token give
\* "id, email, token", "email, token" and two tokens.
C12_DescriptorListsCongruent ==
    /\ \A r \in 1..Len(infos) : ListsAsDeclared(infos[r])
    /\ \A r \in 1..Len(infos) :
          (infos[r].Type = "main.Gen" /\ decl = ExampleDecl) =>
              /\ infos[r].FieldsSimple = <<"i", "d", ",", " ", "e", "m", "a", "i", "l", ",", " ", "t", "o", "k", "e", "n">>
              /\ infos[r].FieldsInsert = <<"e", "m", "a", "i", "l", ",", " ", "t", "o", "k", "e", "n">>
              /\ infos[r].Placeholders = <<"$", "1", ",", " ", "$", "2">>

\* a descriptor built for a declaration with a field without tag, an
\* autoincrement field and an insertable field
C12_Witness ==
    \E r \in 1..Len(infos) :
        /\ infos[r].Type = "main.Gen"
        /\ Len(decl) = 3
        /\ \E i \in 1..3 : ~decl[i].mapped
        /\ \E i \in 1..3 : decl[i].autoinc
        /\ infos[r].FieldsInsert # <<>>

------------------------------------------------------------------------------
\* Further properties of ConvertPH, checked under SpecPH

\* C13 (as stated): on a statement with an unterminated string literal
\* ConvertPH fails with a parse failure; it never returns a rewritten
\* statement for it, truncated or partially translated.
C13_UnterminatedLiteralFails ==
    (phCalls > 0 /\ ~WellQuoted(phq)) => phr = <<"panic">>

------------------------------------------------------------------------------
\* GetErrorType (src/error.go:26-58) called on the errors a caller holds

\* the errors passed: nil, the backend-structured errors, and errors of other
\* types (the package's own sentinels among them)
ErrorValues ==
    {"nil"} \cup PqErrors
      \cup {"connErr", "ErrTxDone", "fmtErr", "ERR_DUPLICATE_ENTRY", "ERR_SERIAL_TX",
            "ERR_OTHER"}

\* a call GetErrorType(err)
GetErrorTypeCall ==
    /\ Len(gres) < MaxErrCalls
    /\ \E err \in ErrorValues :
        /\ gerr' = err
        /\ gres' = Append(gres, [err |-> err, out |-> GetErrorType(err)])

InitG ==
    /\ gerr = "nil"
    /\ gres = <<>>

NextG == GetErrorTypeCall /\ UNCHANGED <<txVars, phVars, regVars, xVars, sVars, rVars, dVars, qVars, eVars>>

InitSpecG == IdleTx /\ IdlePH /\ IdleReg /\ IdleX /\ IdleS /\ IdleR /\ IdleD /\ InitG /\ IdleQ /\ IdleE

SpecG == InitSpecG /\ [][NextG]_vars

\* the taxonomy tags
Tags == {"ERR_DUPLICATE_ENTRY", "ERR_SERIAL_TX", "ERR_OTHER"}

\* C14: nil maps to nil; a backend-structured error maps to
\* ERR_DUPLICATE_ENTRY exactly when its code is 23505, to ERR_SERIAL_TX exactly
\* when its code is 40001 and to ERR_OTHER for every other code; any other
\* error is returned unchanged; equal errors classify alike.
C14_ClassificationTotal ==
    \A k \in 1..Len(gres) :
        LET c == gres[k] IN
        /\ c.err = "nil" => c.out = "nil"
        /\ c.err \in PqErrors =>
              /\ c.out \in Tags
              /\ c.out = "ERR_DUPLICATE_ENTRY" <=> Code(c.err) = "23505"
              /\ c.out = "ERR_SERIAL_TX" <=> Code(c.err) = "40001"
              /\ c.out = "ERR_OTHER" <=> Code(c.err) \notin {"23505", "40001"}
        /\ c.err \notin PqErrors => c.out = c.err
        /\ \A j \in 1..Len(gres) : gres[j].err = c.err => gres[j].out = c.out

\* a conflict and an error of the same class with another code, classified
C14_Witness ==
    /\ Len(gres) = 2
    /\ gres[1] = [err |-> "pq40001", out |-> "ERR_SERIAL_TX"]
    /\ gres[2] = [err |-> "pq40P01", out |-> "ERR_OTHER"]

------------------------------------------------------------------------------
\* C15 (as stated), checked under SpecPH: once ConvertPH(q) has returned,
\* phConversions maps q to the string returned, so that later calls are
\* answered from that entry.
C15_ResultIsMemoized ==
    (phCalls > 0 /\ phr # <<"panic">>) =>
        \E k \in 1..Len(phConversions) :
            phConversions[k].q = phq /\ phConversions[k].r = phr

------------------------------------------------------------------------------
\* C16 (as stated), checked under Spec: when an implicit rollback of the
\* cleanup (the deferred handler's, or Finalize's) fails, the attempt ends with
\* that failure handed to the caller and is not retried, however the original
\* error is classified.
C16_RollbackFailureEscalated ==
    (pc = "loop" /\ hist.rbErr # "nil") => (~retry /\ retErr = hist.rbErr)

------------------------------------------------------------------------------
\* Properties of the calls' outcomes, checked under SpecD

\* rt is a struct type, or a pointer to one
StructAfterDeref(rt) == rt.ptr <= 1 /\ TypeInfo(rt.id).kind = "struct"

\* the type rt names after one dereference itself conforms to the scan
\* protocol: its own method set holds Scan
Conforms(rt) == rt.ptr <= 1 /\ TypeInfo(rt.id).scan = "value"

\* C17 (as stated): GetModelInfoFromType fails fatally when the type, after
\* one pointer dereference, is not a struct, and returns no descriptor
\* without failing only for a type that itself conforms to the scan protocol.
C17_NonStructFailsFatally ==
    \A k \in 1..Len(dgot) :
        LET c == dgot[k] IN
        c.rt # NilType =>
            /\ ~StructAfterDeref(c.rt) => c.panic
            /\ (~c.panic /\ c.ref = 0) => Conforms(c.rt)

\* C17 (amended): GetModelInfoFromType fails only on the nil reflect.Type; for
\* a type that after one pointer dereference is not a struct, and for a
\* struct type that itself conforms to the scan protocol, it returns no
\* descriptor without failing; for every other struct type it returns a
\* descriptor.
C17_NonStructGivesNoDescriptor ==
    \A k \in 1..Len(dgot) :
        LET c == dgot[k] IN
        /\ c.panic <=> c.rt = NilType
        /\ c.rt # NilType =>
              (c.ref = 0 <=> (~StructAfterDeref(c.rt) \/ Conforms(c.rt)))

\* calls with a scalar type, with a pointer to a struct and with a struct
\* that conforms to the scan protocol
C17_Witness ==
    /\ \E k \in 1..Len(dgot) : dgot[k].rt.id = "int64" /\ dgot[k].ref = 0 /\ ~dgot[k].panic
    /\ \E k \in 1..Len(dgot) : dgot[k].rt = [id |-> "main.Gen", ptr |-> 1] /\ dgot[k].ref # 0

------------------------------------------------------------------------------
\* _QueryAll (src/modeldb.go:252-267).  reflect.New allocates on a heap of
\* values; protos holds the addresses appended, in order.

\* the zero value of type t, which reflect.New(t) points at
ZeroValue(t) ==
    IF TypeInfo(t).kind = "struct"
    THEN [t |-> t, ptr |-> 0, val |-> "",
          fv |-> [i \in 1..Len(TypeInfo(t).fields) |-> Zero(TypeInfo(t).fields[i].Type)]]
    ELSE Scalar(t, Zero(t))

\* protoValueP := reflect.New(reflect.TypeOf(proto)) (line 259)
Alloc(heap, t) == [heap |-> Append(heap, ZeroValue(t)), addr |-> Len(heap) + 1]

\* what _QueryAll returns: (nil, err) or (protos.Interface(), nil); reads is
\* the number of rows read from the cursor
Outcome(reg, heap, panic, err, isNil, protos) ==
    [reg |-> reg, heap |-> heap, panic |-> panic, err |-> err, isNil |-> isNil,
     protos |-> protos, reads |-> Len(heap)]

\* the loop over rows.Next() (lines 258-265) from row i on
RECURSIVE QueryAllFrom(_, _, _, _, _, _)

\* (variant: a failed scan returns the records gathered so far)
Scanned_KeepPartial(a, sc, t, rows, i, protos) ==
    IF sc.panic THEN Outcome(sc.reg, a.heap, TRUE, "nil", TRUE, <<>>)
    ELSE IF sc.err # "nil" THEN Outcome(sc.reg, a.heap, FALSE, sc.err, FALSE, protos)
    ELSE QueryAllFrom(sc.reg, t, rows, i + 1, [a.heap EXCEPT ![a.addr] = sc.dest[1]],
                      Append(protos, a.addr))

\* lines 261-264, sc the outcome of scanStruct(rows, protoValueP.Interface())
Scanned(a, sc, t, rows, i, protos) ==
    IF sc.panic THEN Outcome(sc.reg, a.heap, TRUE, "nil", TRUE, <<>>)
    ELSE IF sc.err # "nil" THEN Outcome(sc.reg, a.heap, FALSE, sc.err, TRUE, <<>>)
    ELSE QueryAllFrom(sc.reg, t, rows, i + 1, [a.heap EXCEPT ![a.addr] = sc.dest[1]],
                      Append(protos, a.addr))

\* lines 259-260, a the allocation
ScanNext(a, reg, t, rows, i, protos) ==
    Scanned(a, ScanStruct(reg, rows[i], <<a.heap[a.addr]>>), t, rows, i, protos)

QueryAllFrom(reg, t, rows, i, heap, protos) ==
    IF i > Len(rows) THEN Outcome(reg, heap, FALSE, "nil", FALSE, protos)
    ELSE ScanNext(Alloc(heap, t), reg, t, rows, i, protos)

\* lines 254-257, x the outcome of expandArgs(args...), err the error of c.Query
Queried(x, t, err, rows) ==
    IF x.panic THEN Outcome(x.reg, <<>>, TRUE, "nil", TRUE, <<>>)
    ELSE IF err # "nil" THEN Outcome(x.reg, <<>>, FALSE, err, TRUE, <<>>)
    ELSE QueryAllFrom(x.reg, t, rows, 1, <<>>, <<>>)

\* _QueryAll(c, proto, query, args...)
QueryAll(reg, proto, query, args, err, rows) ==
    IF ConvertPH(phConversions, query) = <<"panic">>
    THEN Outcome(reg, <<>>, TRUE, "nil", TRUE, <<>>)
    ELSE Queried(ExpandFrom(reg, args, 1, <<>>), proto.t, err, rows)

\* the statements and argument lists of the calls
QueryStatements == {<<"S", "E", "L", "E", "C", "T", " ", "i", "d", " ", "F", "R", "O", "M", " ", "u", "s", "e", "r", " ", "W", "H", "E", "R", "E", " ", "i", "d", "<", "?">>}

QueryArgs == {<<Scalar("int64", "7")>>, <<NilValue>>}

\* the protos: a record and a scalar
Protos == {ZeroValue("main.User"), ZeroValue("main.Item"), Scalar("int64", "5")}

\* the cursors over results of one column layout: up to MaxRows rows (one row
\* for the widest record)
Cursors(proto) ==
    LET R == RowsFor(<<proto>>)
        most == IF proto.t = "main.User" THEN 1 ELSE MaxRows
    IN  {rs \in UNION {[1..n -> R] : n \in 0..most} :
            \A i \in 1..Len(rs) : Len(rs[i]) = Len(rs[1])}

\* the caller's state once _QueryAll has left outcome r
QueryAllReturn(query, args, r) ==
    /\ allModelInfos' = r.reg.cache
    /\ infos' = r.reg.infos
    /\ qres' = <<[query |-> query, args |-> args, panic |-> r.panic, err |-> r.err,
                  isNil |-> r.isNil, protos |-> r.protos, heap |-> r.heap,
                  reads |-> r.reads]>>

\* a call QueryAll(qproto, query, args...)
QueryAllCall ==
    /\ qres = <<>>
    /\ \E query \in QueryStatements, args \in QueryArgs :
          QueryAllReturn(query, args,
                         QueryAll([cache |-> allModelInfos, infos |-> infos], qproto, query,
                                  args, qerr, qrows))
    /\ UNCHANGED <<qproto, qrows, qerr>>

InitQ ==
    /\ qproto \in Protos
    /\ qrows \in Cursors(qproto)
    /\ qerr \in {"nil", "connErr"}
    /\ qres = <<>>

NextQ == QueryAllCall /\ UNCHANGED <<txVars, phVars, xVars, sVars, rVars, dVars, gVars, eVars>>

InitSpecQ == IdleTx /\ IdlePH /\ IdleReg /\ IdleX /\ IdleS /\ IdleR /\ IdleD /\ IdleG /\ InitQ /\ IdleE

SpecQ == InitSpecQ /\ [][NextQ]_vars

------------------------------------------------------------------------------
\* Properties of QueryAll, checked under SpecQ

\* scanStruct of the row into a fresh value of the proto's type
FreshScan(row) ==
    ScanStruct([cache |-> allModelInfos, infos |-> infos], row, <<ZeroValue(qproto.t)>>)

\* the rows of the cursor whose scan fails
FailingRows == {i \in 1..Len(qrows) : FreshScan(qrows[i]).err # "nil"}

\* the call got its cursor: c.Query was reached and returned no error
GotCursor == qres # <<>> /\ ~qres[1].panic /\ qerr = "nil"

\* C18: over a cursor of n rows that all scan, QueryAll returns n newly
\* allocated records in cursor order; at the first row whose scan fails it
\* stops reading and returns that scan error and nil, never a partial
\* sequence.
C18_AllRowsOrNil ==
    GotCursor =>
        LET r == qres[1] IN
        IF FailingRows = {}
        THEN /\ r.err = "nil" /\ ~r.isNil
             /\ Len(r.protos) = Len(qrows)
             /\ \A i \in 1..Len(r.protos) : \A j \in 1..Len(r.protos) :
                    i # j => r.protos[i] # r.protos[j]
             /\ \A i \in 1..Len(r.protos) :
                    r.heap[r.protos[i]] = FreshScan(qrows[i]).dest[1]
        ELSE LET first == CHOOSE i \in FailingRows : \A j \in FailingRows : i <= j IN
             /\ r.err = FreshScan(qrows[first]).err
             /\ r.isNil /\ r.protos = <<>>
             /\ r.reads = first

\* two rows scanned into two records that differ; and C18_Witness: a second
\* row that fails to scan after a first that scanned
C18_TwoRecords ==
    /\ GotCursor
    /\ Len(qrows) = 2
    /\ FailingRows = {}
    /\ Len(qres[1].protos) = 2
    /\ qres[1].heap[qres[1].protos[1]] # qres[1].heap[qres[1].protos[2]]

C18_Witness ==
    /\ GotCursor
    /\ Len(qrows) = 2
    /\ qproto.t = "main.Item"
    /\ FailingRows = {2}
    /\ qres[1].isNil /\ qres[1].err = "convertNull" /\ qres[1].reads = 2

------------------------------------------------------------------------------
\* The descriptor a call returns against the type it was asked for, checked
\* under SpecD

\* the column names of the declared type's mapped fields
DeclaredColumns(id) == ColumnsOf(TypeInfo(id).fields, LAMBDA f : f.mapped)

\* C20 (as stated): after any sequence of GetModelInfoFromType calls, the
\* descriptor returned for a type T has Type equal to T and lists T's own
\* mapped fields, also when two distinct record types share the bare type
\* name the cache is keyed by.
C20_DescriptorIsOfItsType ==
    \A k \in 1..Len(dgot) :
        LET c == dgot[k] IN
        c.ref # 0 =>
            /\ infos[c.ref].Type = c.rt.id
            /\ [i \in 1..Len(infos[c.ref].Fields) |-> infos[c.ref].Fields[i].Column]
                   = DeclaredColumns(c.rt.id)

------------------------------------------------------------------------------
\* _Exec (src/modeldb.go:236-238) on a statement composed, as the README
\* composes it, from a descriptor's FieldsInsert and Placeholders and from
\* '?' markers of the caller's own.

\* the registry at process start
EmptyRegistry == [cache |-> <<>>, infos |-> <<>>]

\* the statement with k markers after the descriptor's fragment
RECURSIVE Conditions(_)
Conditions(k) ==
    IF k = 1 THEN <<" ", "W", "H", "E", "R", "E", " ", "a", "=", "?">> ELSE Conditions(k - 1) \o <<" ", "A", "N", "D", " ", "a", "=", "?">>

Statement(m, k) ==
    <<"I", "N", "S", "E", "R", "T", " ", "I", "N", "T", "O", " ", "t", " ", "(">> \o m.FieldsInsert \o <<")", " ", "S", "E", "L", "E", "C", "T", " ">> \o m.Placeholders
        \o <<" ", "F", "R", "O", "M", " ", "u">> \o Conditions(k)

\* the records and the scalars passed
ItemValues ==
    {[t |-> "main.Item", ptr |-> p, val |-> "", fv |-> <<id, name>>] :
        p \in {0, 1}, id \in {"0", "7"}, name \in {"", "x"}}

ExecScalars == {Scalar("int64", "7"), Scalar("string", "x")}

\* the argument lists [record, scalar...] with 1..MaxMarkers scalars
ExecArgLists ==
    {<<rec>> \o sc : rec \in UserValues \cup ItemValues,
                     sc \in UNION {[1..k -> ExecScalars] : k \in 1..MaxMarkers}}

\* what c.Exec is handed: ConvertPH(query), expandArgs(args...)...
Exec(reg, query, args) ==
    [text |-> ConvertPH(phConversions, query), x |-> ExpandFrom(reg, args, 1, <<>>)]

\* the caller's state once the call has handed c.Exec r
ExecReturn(r) ==
    /\ allModelInfos' = r.x.reg.cache
    /\ infos' = r.x.reg.infos
    /\ eres' = <<[panic |-> r.x.panic \/ r.text = <<"panic">>, text |-> r.text,
                  params |-> r.x.a]>>

\* a call Exec(equery, eargs...)
ExecCall ==
    /\ equery # <<>>
    /\ eres = <<>>
    /\ ExecReturn(Exec([cache |-> allModelInfos, infos |-> infos], equery, eargs))
    /\ UNCHANGED <<equery, eargs>>

\* the caller's state once the statement is composed from the descriptor g
\* of the record and k markers of the caller's own
ComposeReturn(g, k) ==
    /\ allModelInfos' = g.reg.cache
    /\ infos' = g.reg.infos
    /\ equery' = Statement(g.reg.infos[g.ref], k)

\* var UserModel = GetModelInfo(new(User)), and the statement text composed
\* from UserModel.FieldsInsert and UserModel.Placeholders
Compose ==
    /\ equery = <<>>
    /\ ComposeReturn(GetModelInfo([cache |-> allModelInfos, infos |-> infos], eargs[1]),
                     Len(eargs) - 1)
    /\ UNCHANGED <<eargs, eres>>

InitE ==
    /\ eargs \in ExecArgLists
    /\ equery = <<>>
    /\ eres = <<>>

NextE ==
    \/ Compose /\ UNCHANGED <<txVars, phVars, xVars, sVars, rVars, dVars, gVars, qVars>>
    \/ ExecCall /\ UNCHANGED <<txVars, phVars, xVars, sVars, rVars, dVars, gVars, qVars>>

InitSpecE == IdleTx /\ IdlePH /\ IdleReg /\ IdleX /\ IdleS /\ IdleR /\ IdleD /\ IdleG /\ IdleQ /\ InitE

SpecE == InitSpecE /\ [][NextE]_vars

------------------------------------------------------------------------------
\* Properties of Exec, checked under SpecE

IsDigit(c) == c \in {"0", "1", "2", "3", "4", "5", "6", "7", "8", "9"}

DigitValue(c) == CHOOSE d \in 0..9 : Digit(d) = c

\* the number the digits text[i..] start with, n the value read so far
RECURSIVE NumberAt(_, _, _)
NumberAt(text, i, n) ==
    IF i <= Len(text) /\ IsDigit(text[i])
    THEN NumberAt(text, i + 1, 10 * n + DigitValue(text[i]))
    ELSE n

\* the parameter indexes $n of text[i..], in order of appearance
RECURSIVE ParamIndexes(_, _)
ParamIndexes(text, i) ==
    IF i > Len(text) THEN <<>>
    ELSE IF text[i] = "$" /\ i < Len(text) /\ IsDigit(text[i + 1])
         THEN <<NumberAt(text, i + 1, 0)>> \o ParamIndexes(text, i + 1)
         ELSE ParamIndexes(text, i + 1)

\* C19 (as stated): for a statement built from a descriptor's Placeholders
\* and '?' markers, executed with [record, scalar...], the parameter indexes
\* of the text handed to the backend are 1..n in order of appearance, n the
\* length of the flattened argument list, so that they are pairwise distinct
\* and the i-th parameter stands for the i-th flattened argument.
C19_ParametersMatchArguments ==
    eres # <<>> =>
        /\ ~eres[1].panic
        /\ ParamIndexes(eres[1].text, 1) = [i \in 1..Len(eres[1].params) |-> i]

====
